---- MODULE Spec2Model ----
(***************************************************************************)
(* PyMetEireann (meteireann/__init__.py): the forecast selection and       *)
(* aggregation engine of WeatherData and the warning normalisation of      *)
(* WarningData.                                                            *)
(*                                                                         *)
(* Python values are tagged records: None, floats (held in hundredths),    *)
(* strings (sequences of one-character strings), aware datetimes           *)
(* (wall-clock seconds and UTC offset).  Dictionaries are functions whose  *)
(* DOMAIN is the key set.  A call's result is [outcome, value] with        *)
(* outcome "return" or "raise" (value then names the exception).           *)
(*                                                                         *)
(* The two classes share no state, so one object is modelled at a time:    *)
(* Init constructs either a WeatherData or a WarningData.                  *)
(***************************************************************************)
EXTENDS Integers, Sequences, FiniteSets, TLC

VARIABLES
    cls,             \* class of the constructed object
    data,            \* self.data
    convert_to_utc,  \* self._convert_to_utc (WarningData)
    ignore_blight,   \* self._ignore_blight (WarningData)
    ret,             \* the last call made on the object and its result
    frame,           \* locals of the last get_weather call when it ended
    hist             \* history: last document a fetch stored, first
                     \* get_warnings result since that fetch

vars == <<cls, data, convert_to_utc, ignore_blight, ret, frame, hist>>

----------------------------------------------------------------------------
(* Python values *)

None == [tag |-> "None"]
Float(h) == [tag |-> "float", v |-> h]
Str(chars) == [tag |-> "str", v |-> chars]
DateTime(wall, off) == [tag |-> "datetime", wall |-> wall, utcoffset |-> off]
EmptyDict == <<>>

Return(v) == [outcome |-> "return", value |-> v]
Raise(e) == [outcome |-> "raise", value |-> [tag |-> "exception", v |-> e]]
Bool(b) == [tag |-> "bool", v |-> b]

SecondsPerHour == 3600
SecondsPerDay == 86400
DefaultMaxHour == 6
HourlyPoints == 24
DailyPoints == 5
NoonHour == 12
ErrorStatus == 400

Abs(x) == IF x < 0 THEN -x ELSE x

\* datetime.date(): the calendar day of the wall-clock reading
date(dt) == dt.wall \div SecondsPerDay

\* the instant of an aware datetime
utc(dt) == dt.wall - dt.utcoffset

\* (a - b).total_seconds() on aware datetimes
total_seconds(a, b) == utc(a) - utc(b)

\* round(x, 1) on a value held in units of 1/(10*unit): nearest multiple of
\* unit, ties to the even multiple
round1(n, unit) ==
    LET q == n \div unit
        r == n % unit
    IN  IF 2 * r < unit THEN q * unit
        ELSE IF 2 * r > unit THEN (q + 1) * unit
        ELSE IF q % 2 = 0 THEN q * unit ELSE (q + 1) * unit

Digits == <<"0", "1", "2", "3", "4", "5", "6", "7", "8", "9">>
IsDigit(c) == \E d \in 1..10 : Digits[d] = c
DigitVal(c) == (CHOOSE d \in 1..10 : Digits[d] = c) - 1

\* the value in hundredths of `mantissa` read with `frac` fractional digits
\* (frac < 0: no decimal point was read)
hundredths(mantissa, frac) ==
    IF frac <= 0 THEN 100 * mantissa
    ELSE IF frac = 1 THEN 10 * mantissa
    ELSE mantissa

\* the unsigned decimal literal left in chars; a character that is neither a
\* digit nor the one decimal point, or no digit at all, is a ValueError.
\* Literals carry at most two fractional digits.
RECURSIVE scan_decimal(_, _, _, _)
scan_decimal(chars, mantissa, frac, seen_digit) ==
    IF chars = <<>>
    THEN IF seen_digit /\ frac <= 2 THEN Return(hundredths(mantissa, frac))
         ELSE Raise("ValueError")
    ELSE IF Head(chars) = "."
    THEN IF frac >= 0 THEN Raise("ValueError")
         ELSE scan_decimal(Tail(chars), mantissa, 0, seen_digit)
    ELSE IF IsDigit(Head(chars))
    THEN scan_decimal(Tail(chars), 10 * mantissa + DigitVal(Head(chars)),
                      IF frac >= 0 THEN frac + 1 ELSE frac, TRUE)
    ELSE Raise("ValueError")

negated(r) == IF r.outcome = "raise" THEN r ELSE Return(-r.value)

\* float(s), in hundredths, of an attribute value (xmltodict yields every
\* attribute as a string)
float(s) ==
    IF s.v # <<>> /\ Head(s.v) = "-"
    THEN negated(scan_decimal(Tail(s.v), 0, -1, FALSE))
    ELSE scan_decimal(s.v, 0, -1, FALSE)

\* round(float(...) * 3.6, 1) for '@mps', round(float(...), 1) otherwise;
\* None when float() raised
converted(f, value) ==
    IF f.outcome = "raise" THEN None
    ELSE IF value = "@mps" THEN Float(round1(f.value * 36, 100) \div 10)
    ELSE Float(round1(f.value, 10))

\* get_value(data, value)
get_value(d, value) ==
    IF value \notin DOMAIN d THEN None
    ELSE converted(float(d[value]), value)

ValueParams == {"temperature", "pressure", "humidity", "dewpointTemperature",
                "precipitation"}
MpsParams == {"windSpeed", "windGust"}
PercentParams == {"fog", "cloudiness", "lowClouds", "mediumClouds", "highClouds"}
KnownParams == {"symbol", "windDirection"} \cup ValueParams \cup MpsParams
                  \cup PercentParams

\* the sub-value get_data reads for each parameter
sub_value(param) ==
    IF param \in ValueParams THEN "@value"
    ELSE IF param \in MpsParams THEN "@mps"
    ELSE IF param = "windDirection" THEN "@deg"
    ELSE "@percent"

\* the value get_data takes from a location that carries param; a missing
\* '@id' is the KeyError get_data turns into None
new_state(param, loc_data) ==
    IF param = "symbol"
    THEN IF "@id" \in DOMAIN loc_data[param] THEN loc_data[param]["@id"] ELSE None
    ELSE get_value(loc_data[param], sub_value(param))

\* a variant that passes over an entry whose value is None
RECURSIVE get_data_skipping_null(_, _)
get_data_skipping_null(param, entries) ==
    IF entries = <<>> THEN None
    ELSE IF param \notin DOMAIN Head(entries)[2]["location"]
    THEN get_data_skipping_null(param, Tail(entries))
    ELSE IF new_state(param, Head(entries)[2]["location"]) = None
    THEN get_data_skipping_null(param, Tail(entries))
    ELSE new_state(param, Head(entries)[2]["location"])

\* get_data(param, data): the first entry, in order, whose location has param
RECURSIVE get_data(_, _)
get_data(param, entries) ==
    IF entries = <<>> THEN None
    ELSE IF param \notin DOMAIN Head(entries)[2]["location"]
    THEN get_data(param, Tail(entries))
    ELSE new_state(param, Head(entries)[2]["location"])

\* the UTC offset strptime's %z reads from a zone text
zone_offset(zone) ==
    IF zone = " +0000" \/ zone = "+0000" \/ zone = "Z" THEN 0
    ELSE IF zone = " +0100" \/ zone = "+0100" THEN SecondsPerHour
    ELSE 0

\* parse_datetime(dt_str): 'Z' becomes ' +0000', then '%Y-%m-%dT%H:%M:%S %z'
parse_datetime(dt_str) ==
    DateTime(dt_str.wall,
             zone_offset(IF dt_str.zone = "Z" THEN " +0000" ELSE dt_str.zone))

----------------------------------------------------------------------------
(* WeatherData.get_weather *)

\* a variant that also drops the entry ending at `time`
already_passed_inclusive(time, valid_to) == utc(time) >= utc(valid_to)

\* `time > valid_to`: the entry has already passed
already_passed(time, valid_to) == utc(time) > utc(valid_to)

\* a variant that looks at the start of the interval only
on_day_from_only(valid_from, valid_to, day) == date(valid_from) = day

\* `valid_from.date() == day or valid_to.date() == day`
on_day(valid_from, valid_to, day) ==
    date(valid_from) = day \/ date(valid_to) = day

\* abs((valid_to - time).total_seconds()) + abs((valid_from - time).total_seconds())
average_dist(valid_from, valid_to, time) ==
    Abs(total_seconds(valid_to, time)) + Abs(total_seconds(valid_from, time))

\* `average_dist > max_hour * 3600`
too_far(dist, max_hour) == dist > max_hour * SecondsPerHour

EmptyLocals ==
    [daily_temperatures |-> <<>>, daily_precipitation |-> <<>>,
     daily_windspeed |-> <<>>, daily_windgust |-> <<>>,
     ordered_entries |-> <<>>]

\* `if param in location: lst.append(get_value(location[param], key))`
appended(list, loc, param, key) ==
    IF param \in DOMAIN loc THEN Append(list, get_value(loc[param], key)) ELSE list

\* the daily lists after an entry of the target day has been collected
collect_daily(locals, loc) ==
    [locals EXCEPT
        !.daily_temperatures = appended(@, loc, "temperature", "@value"),
        !.daily_precipitation = appended(@, loc, "precipitation", "@value"),
        !.daily_windspeed = appended(@, loc, "windSpeed", "@mps"),
        !.daily_windgust = appended(@, loc, "windGust", "@mps")]

\* the end of one iteration: the distance test and the append
select_entry(collected, dist, time_entry, max_hour) ==
    IF too_far(dist, max_hour) THEN collected
    ELSE [collected EXCEPT !.ordered_entries = Append(@, <<dist, time_entry>>)]

\* one iteration, valid_from and valid_to parsed
scan_parsed(locals, time_entry, valid_from, valid_to, time, max_hour) ==
    IF already_passed(time, valid_to) THEN locals
    ELSE select_entry(IF on_day(valid_from, valid_to, date(time))
                      THEN collect_daily(locals, time_entry["location"])
                      ELSE locals,
                      average_dist(valid_from, valid_to, time),
                      time_entry, max_hour)

\* one iteration of `for time_entry in self.data['product']['time']`
scan_entry(locals, time_entry, time, max_hour) ==
    scan_parsed(locals, time_entry, parse_datetime(time_entry["@from"]),
                parse_datetime(time_entry["@to"]), time, max_hour)

RECURSIVE scan_entries(_, _, _, _)
scan_entries(locals, entries, time, max_hour) ==
    IF entries = <<>> THEN locals
    ELSE scan_entries(scan_entry(locals, Head(entries), time, max_hour),
                      Tail(entries), time, max_hour)

Front(seq) == SubSeq(seq, 1, Len(seq) - 1)
Last(seq) == seq[Len(seq)]

\* a variant of the sort that places an item before those of equal key
RECURSIVE insert_before_equal(_, _)
insert_before_equal(sorted, item) ==
    IF sorted = <<>> THEN <<item>>
    ELSE IF Last(sorted)[1] < item[1] THEN Append(sorted, item)
    ELSE Append(insert_before_equal(Front(sorted), item), Last(sorted))

RECURSIVE sort_unstable(_)
sort_unstable(items) ==
    IF items = <<>> THEN <<>>
    ELSE insert_before_equal(sort_unstable(Front(items)), Last(items))

\* the place of item in a list sorted by key: after every item whose key is
\* not greater
RECURSIVE insert_sorted(_, _)
insert_sorted(sorted, item) ==
    IF sorted = <<>> THEN <<item>>
    ELSE IF Last(sorted)[1] <= item[1] THEN Append(sorted, item)
    ELSE Append(insert_sorted(Front(sorted), item), Last(sorted))

\* ordered_entries.sort(key=lambda item: item[0]): stable, ascending
RECURSIVE sort_by_distance(_)
sort_by_distance(items) ==
    IF items = <<>> THEN <<>>
    ELSE insert_sorted(sort_by_distance(Front(items)), Last(items))

\* max(list) / min(list): the comparison of a float with None is a
\* TypeError; a list of one element is returned without a comparison
RECURSIVE py_extreme(_, _, _)
py_extreme(best, rest, want_max) ==
    IF rest = <<>> THEN Return(best)
    ELSE IF Head(rest) = None \/ best = None THEN Raise("TypeError")
    ELSE IF (want_max /\ Head(rest).v > best.v) \/ (~want_max /\ Head(rest).v < best.v)
    THEN py_extreme(Head(rest), Tail(rest), want_max)
    ELSE py_extreme(best, Tail(rest), want_max)

\* `None if lst == [] else max(lst)`
max(list) ==
    IF list = <<>> THEN Return(None) ELSE py_extreme(Head(list), Tail(list), TRUE)

\* `None if lst == [] else min(lst)`
min(list) ==
    IF list = <<>> THEN Return(None) ELSE py_extreme(Head(list), Tail(list), FALSE)

\* sum(list): 0 + None is a TypeError
RECURSIVE sum(_, _)
sum(acc, rest) ==
    IF rest = <<>> THEN Return(Float(round1(acc, 10)))
    ELSE IF Head(rest) = None THEN Raise("TypeError")
    ELSE sum(acc + Head(rest).v, Tail(rest))

\* `None if lst == [] else round(sum(lst), 1)`
rounded_sum(list) == IF list = <<>> THEN Return(None) ELSE sum(0, list)

\* the dict of keys[i] -> results[i].value, or the first raise among results
first_raise_or_dict(keys, results) ==
    IF \E i \in 1..Len(results) : results[i].outcome = "raise"
    THEN results[CHOOSE i \in 1..Len(results) :
                    /\ results[i].outcome = "raise"
                    /\ \A j \in 1..(i - 1) : results[j].outcome = "return"]
    ELSE Return([k \in {keys[i] : i \in 1..Len(keys)} |->
                    results[CHOOSE i \in 1..Len(keys) : keys[i] = k].value])

CommonFields == <<"condition", "pressure", "humidity", "wind_bearing">>
CommonParams == <<"symbol", "pressure", "humidity", "windDirection">>
HourlyFields == <<"temperature", "precipitation", "wind_speed", "wind_gust",
                  "cloudiness">>
HourlyParams == <<"temperature", "precipitation", "windSpeed", "windGust",
                  "cloudiness">>
DailyFields == <<"temperature", "templow", "precipitation", "wind_speed",
                 "wind_gust">>

\* res[field] = get_data(param, ordered_entries), field by field
extracted(fields, params, ordered) ==
    [f \in {fields[i] : i \in 1..Len(fields)} |->
        get_data(params[CHOOSE i \in 1..Len(fields) : fields[i] = f], ordered)]

\* the daily branch, in the order the code evaluates it
daily_fields(locals) ==
    first_raise_or_dict(DailyFields,
        << max(locals.daily_temperatures), min(locals.daily_temperatures),
           rounded_sum(locals.daily_precipitation),
           max(locals.daily_windspeed), max(locals.daily_windgust) >>)

\* res once the mode-specific fields are known
with_common(mode, time, ordered) ==
    IF mode.outcome = "raise" THEN mode
    ELSE Return(("datetime" :> time)
                @@ extracted(CommonFields, CommonParams, ordered)
                @@ mode.value)

snapshot(locals, time, hourly) ==
    with_common(IF hourly
                THEN Return(extracted(HourlyFields, HourlyParams,
                                      locals.ordered_entries))
                ELSE daily_fields(locals),
                time, locals.ordered_entries)

sorted_locals(scanned) ==
    [scanned EXCEPT !.ordered_entries = sort_by_distance(@)]

\* a variant without the test for an empty ordered_entries
finish_weather_partial(scanned, time, hourly) ==
    [result |-> snapshot(sorted_locals(scanned), time, hourly),
     locals |-> sorted_locals(scanned)]

\* `if not ordered_entries: return {}`, else the sort and the snapshot
finish_weather(scanned, time, hourly) ==
    IF scanned.ordered_entries = <<>>
    THEN [result |-> Return(EmptyDict), locals |-> scanned]
    ELSE [result |-> snapshot(sorted_locals(scanned), time, hourly),
          locals |-> sorted_locals(scanned)]

\* get_weather(self, time, max_hour=6, hourly=False): its result and its
\* locals as it ends
get_weather(self_data, time, max_hour, hourly) ==
    IF self_data = None
    THEN [result |-> Return(EmptyDict), locals |-> EmptyLocals]
    ELSE finish_weather(scan_entries(EmptyLocals, self_data["product"]["time"],
                                     time, max_hour),
                        time, hourly)

\* now.replace(minute=0, second=0, microsecond=0) / now.replace(hour=12, ...)
forecast_base(now, hourly) ==
    IF hourly THEN DateTime(now.wall - (now.wall % SecondsPerHour), now.utcoffset)
    ELSE DateTime(date(now) * SecondsPerDay + NoonHour * SecondsPerHour,
                  now.utcoffset)

\* [now + timedelta(hours=k) for k in range(1, 25)] /
\* [now + timedelta(days=k) for k in range(1, 6)]
times_from(base, hourly) ==
    IF hourly
    THEN [k \in 1..HourlyPoints |->
            DateTime(base.wall + k * SecondsPerHour, base.utcoffset)]
    ELSE [k \in 1..DailyPoints |->
            DateTime(base.wall + k * SecondsPerDay, base.utcoffset)]

forecast_times(now, hourly) == times_from(forecast_base(now, hourly), hourly)

\* [self.get_weather(_time, hourly=hourly) for _time in times]
RECURSIVE weather_list(_, _, _, _)
RECURSIVE weather_list_after(_, _, _, _, _)
weather_list(self_data, times, hourly, acc) ==
    IF times = <<>> THEN Return(acc)
    ELSE weather_list_after(
            get_weather(self_data, Head(times), DefaultMaxHour, hourly).result,
            self_data, Tail(times), hourly, acc)

weather_list_after(result, self_data, times, hourly, acc) ==
    IF result.outcome = "raise" THEN result
    ELSE weather_list(self_data, times, hourly, Append(acc, result.value))

\* a variant without the test `self.data is None`
get_forecast_unguarded(self_data, now, hourly) ==
    weather_list(self_data, forecast_times(now, hourly), hourly, <<>>)

\* get_forecast(self, time_zone, hourly=False); now is datetime.now(time_zone)
get_forecast(self_data, now, hourly) ==
    IF self_data = None THEN Return(<<>>)
    ELSE weather_list(self_data, forecast_times(now, hourly), hourly, <<>>)

----------------------------------------------------------------------------
(* WarningData.get_warnings *)

\* new_timestamp, or new_timestamp.astimezone(tz=datetime.timezone.utc)
as_zone(new_timestamp, convert) ==
    IF convert THEN DateTime(utc(new_timestamp), 0) ELSE new_timestamp

\* format_warning_date(date_str, convert_to_utc): strptime takes only a str
format_warning_date(date_str, convert) ==
    IF date_str.tag # "str" THEN Raise("TypeError")
    ELSE Return(as_zone(DateTime(date_str.wall, zone_offset(date_str.zone)),
                        convert))

TimestampFields == <<"issued", "updated", "onset", "expiry">>

\* the four assignments to one entry, in order; a raise keeps what was
\* already assigned
RECURSIVE format_entry(_, _, _)
RECURSIVE format_entry_after(_, _, _, _)
format_entry(entry, k, convert) ==
    IF k > Len(TimestampFields) THEN [entry |-> entry, exc |-> ""]
    ELSE format_entry_after(format_warning_date(entry[TimestampFields[k]], convert),
                            entry, k, convert)

format_entry_after(r, entry, k, convert) ==
    IF r.outcome = "raise" THEN [entry |-> entry, exc |-> r.value.v]
    ELSE format_entry([entry EXCEPT ![TimestampFields[k]] = r.value], k + 1, convert)

\* `for entry in self.data['warnings']`: entries are updated in place
RECURSIVE format_entries(_, _, _)
RECURSIVE format_entries_after(_, _, _, _)
format_entries(warnings, i, convert) ==
    IF i > Len(warnings) THEN [warnings |-> warnings, exc |-> ""]
    ELSE format_entries_after(format_entry(warnings[i], 1, convert),
                              warnings, i, convert)

format_entries_after(r, warnings, i, convert) ==
    IF r.exc # "" THEN [warnings |-> [warnings EXCEPT ![i] = r.entry], exc |-> r.exc]
    ELSE format_entries([warnings EXCEPT ![i] = r.entry], i + 1, convert)

UpperCase == <<"A", "B", "C", "D", "E", "F", "G", "H", "I", "J", "K", "L", "M",
               "N", "O", "P", "Q", "R", "S", "T", "U", "V", "W", "X", "Y", "Z">>
LowerCase == <<"a", "b", "c", "d", "e", "f", "g", "h", "i", "j", "k", "l", "m",
               "n", "o", "p", "q", "r", "s", "t", "u", "v", "w", "x", "y", "z">>

lower_char(c) ==
    IF \E k \in 1..Len(UpperCase) : UpperCase[k] = c
    THEN LowerCase[CHOOSE k \in 1..Len(UpperCase) : UpperCase[k] = c]
    ELSE c

\* str.lower()
lower(s) == Str([i \in 1..Len(s.v) |-> lower_char(s.v[i])])

Blight == Str(<<"b", "l", "i", "g", "h", "t">>)

\* a variant that compares the type as written
keep_entry_case_sensitive(entry) == entry["type"] # Blight

\* `entry['type'].lower() != 'blight'`
keep_entry(entry) == lower(entry["type"]) # Blight

\* new_warnings_list and its count
filtered_result(new_warnings_list) ==
    Return([count |-> Len(new_warnings_list), warnings |-> new_warnings_list])

\* get_warnings once the timestamps have been updated
warnings_result(stored, exc, ignore) ==
    IF exc # "" THEN [data |-> stored, result |-> Raise(exc)]
    ELSE IF ignore
    THEN [data |-> stored,
          result |-> filtered_result(SelectSeq(stored["warnings"], keep_entry))]
    ELSE [data |-> stored, result |-> Return(stored)]

warnings_formatted(self_data, formatted, ignore) ==
    warnings_result([self_data EXCEPT !["warnings"] = formatted.warnings],
                    formatted.exc, ignore)

\* get_warnings(self): its result and self.data as the call leaves it
get_warnings(self_data, convert, ignore) ==
    IF self_data = None
    THEN [data |-> self_data, result |-> Return([count |-> 0, warnings |-> <<>>])]
    ELSE warnings_formatted(self_data,
                            format_entries(self_data["warnings"], 1, convert),
                            ignore)

----------------------------------------------------------------------------
(* fetching_data *)

\* the part of fetching_data up to the body: FALSE on a timeout, a client
\* error or a status of 400 and above
transport_ok(resp) == resp.exc = "" /\ ~(resp.status >= ErrorStatus)

\* a variant in which a failed fetch clears self.data
weather_fetching_data_clearing(self_data, resp) ==
    IF transport_ok(resp) /\ resp.body.well_formed
    THEN [data |-> resp.body.parsed["weatherdata"], result |-> Return(Bool(TRUE))]
    ELSE [data |-> None, result |-> Return(Bool(FALSE))]

\* WeatherData.fetching_data: self.data = xmltodict.parse(text)['weatherdata']
weather_fetching_data(self_data, resp) ==
    IF transport_ok(resp) /\ resp.body.well_formed
    THEN [data |-> resp.body.parsed["weatherdata"], result |-> Return(Bool(TRUE))]
    ELSE [data |-> self_data, result |-> Return(Bool(FALSE))]

\* WarningData.fetching_data: self.data = {'count': len(json), 'warnings': json}
warning_fetching_data(self_data, resp) ==
    IF transport_ok(resp)
    THEN [data |-> [count |-> Len(resp.body.parsed), warnings |-> resp.body.parsed],
          result |-> Return(Bool(TRUE))]
    ELSE [data |-> self_data, result |-> Return(Bool(FALSE))]

----------------------------------------------------------------------------
(* The documents and inputs the model draws from *)

MaxEntries == 2     \* most time entries in a forecast document
MaxWarnings == 3    \* most entries in a warning document

Hours(h) == h * SecondsPerHour
TimeStr(wall, zone) == [tag |-> "str", wall |-> wall, zone |-> zone]
Attr(key, chars) == key :> Str(chars)

LocFull ==
    "symbol" :> (Attr("@id", <<"S", "u", "n">>) @@ Attr("@number", <<"1">>))
    @@ "temperature" :> Attr("@value", <<"1", "2", ".", "3", "4">>)
    @@ "pressure" :> Attr("@value", <<"1", "0", "1", "3", ".", "2">>)
    @@ "humidity" :> Attr("@value", <<"8", "1", ".", "0">>)
    @@ "windDirection" :> Attr("@deg", <<"2", "7", "0", ".", "0">>)
    @@ "precipitation" :> Attr("@value", <<"0", ".", "5">>)
    @@ "windSpeed" :> Attr("@mps", <<"5", ".", "0">>)
    @@ "windGust" :> Attr("@mps", <<"7", ".", "2", "6">>)
    @@ "cloudiness" :> Attr("@percent", <<"5", "0", ".", "0">>)

\* non-numeric text, a missing sub-value key, an empty text, a missing id
LocMalformed ==
    "symbol" :> Attr("@number", <<"4">>)
    @@ "temperature" :> Attr("@value", <<"n", "/", "a">>)
    @@ "precipitation" :> Attr("@unit", <<"m", "m">>)
    @@ "windSpeed" :> Attr("@mps", <<>>)
    @@ "humidity" :> Attr("@value", <<"6", "0">>)

LocCold ==
    "temperature" :> Attr("@value", <<"-", "3", ".", "0">>)
    @@ "precipitation" :> Attr("@value", <<"1", ".", "2", "6">>)
    @@ "windGust" :> Attr("@mps", <<"1", "2", ".", "5">>)

LocWarm ==
    "symbol" :> Attr("@id", <<"R", "a", "i", "n">>)
    @@ "temperature" :> Attr("@value", <<"1", "5", ".", "0">>)
    @@ "pressure" :> Attr("@value", <<"9", "9", "8", ".", "7", "5">>)
    @@ "windSpeed" :> Attr("@mps", <<"1", "0">>)
    @@ "cloudiness" :> Attr("@percent", <<"x">>)

TimeEntry(from, to, zone, loc) ==
    "@from" :> TimeStr(Hours(from), zone)
    @@ "@to" :> TimeStr(Hours(to), zone)
    @@ "location" :> loc

TimeEntries ==
    { TimeEntry(9, 9, "Z", LocCold),
      TimeEntry(12, 12, "Z", LocFull),
      TimeEntry(12, 18, "Z", LocMalformed),
      TimeEntry(15, 15, "Z", LocWarm),
      TimeEntry(20, 26, "Z", LocCold),
      TimeEntry(37, 37, " +0100", LocFull) }

SeqsUpTo(S, n) == UNION {[1..k -> S] : k \in 0..n}

ForecastDocs ==
    {"product" :> ("time" :> entries) : entries \in SeqsUpTo(TimeEntries, MaxEntries)}

Times == { DateTime(Hours(10), 0), DateTime(Hours(12), 0), DateTime(Hours(13), 0),
           DateTime(Hours(24) + 1800, SecondsPerHour) }
MaxHours == {2, DefaultMaxHour}
Nows == { Hours(11) + 1800, Hours(12) }
\* datetime.now(time_zone) and the mode of a get_forecast call
ForecastRequests ==
    { [now |-> DateTime(Hours(11) + 1800, 0), hourly |-> TRUE],
      [now |-> DateTime(Hours(13), SecondsPerHour), hourly |-> FALSE] }

Warning(id, type, zone) ==
    [id |-> id, type |-> Str(type),
     issued |-> TimeStr(Hours(8), zone), updated |-> TimeStr(Hours(9), zone),
     onset |-> TimeStr(Hours(12), zone), expiry |-> TimeStr(Hours(30), zone)]

WarningEntries ==
    { Warning(1, <<"W", "i", "n", "d">>, "+0100"),
      Warning(2, <<"B", "l", "i", "g", "h", "t">>, "Z"),
      Warning(3, <<"R", "a", "i", "n">>, "+0000") }

WarningDocs == SeqsUpTo(WarningEntries, MaxWarnings)

Statuses == {200, ErrorStatus, 503}
NoBody == [well_formed |-> FALSE, parsed |-> None]

FailedResponses ==
    { [exc |-> e, status |-> 0, body |-> NoBody] : e \in {"TimeoutError", "ClientError"} }
    \cup { [exc |-> "", status |-> st, body |-> NoBody] : st \in Statuses }

WeatherResponses ==
    FailedResponses
    \cup { [exc |-> "", status |-> 200,
            body |-> [well_formed |-> TRUE, parsed |-> "weatherdata" :> doc]] :
           doc \in ForecastDocs }

WarningResponses ==
    { r \in FailedResponses : r.status # 200 }
    \cup { [exc |-> "", status |-> 200,
            body |-> [well_formed |-> TRUE, parsed |-> doc]] : doc \in WarningDocs }

----------------------------------------------------------------------------
(* State machine *)

NoCall == [outcome |-> "none", value |-> None]
Call(op, args, result) == [op |-> op, args |-> args, result |-> result]
NoHistory == [fetched |-> None, first |-> NoCall]

Init ==
    /\ cls \in {"WeatherData", "WarningData"}
    /\ data = None
    /\ IF cls = "WarningData"
       THEN convert_to_utc \in BOOLEAN /\ ignore_blight \in BOOLEAN
       ELSE convert_to_utc = FALSE /\ ignore_blight = FALSE
    /\ ret = Call("__init__", <<>>, Return(None))
    /\ frame = EmptyLocals
    /\ hist = NoHistory

\* what a fetching_data call leaves: fetched is the document it stored
Fetched(r, resp, doc) ==
    /\ data' = r.data
    /\ ret' = Call("fetching_data", <<resp.exc, resp.status, resp.body.well_formed>>,
                   r.result)
    /\ hist' = IF r.result.value.v THEN [fetched |-> doc, first |-> NoCall]
               ELSE hist
    /\ frame' = EmptyLocals
    /\ UNCHANGED <<cls, convert_to_utc, ignore_blight>>

WeatherData_fetching_data ==
    /\ cls = "WeatherData"
    /\ \E resp \in WeatherResponses :
        Fetched(weather_fetching_data(data, resp), resp,
                IF resp.body.well_formed THEN resp.body.parsed["weatherdata"]
                ELSE None)

\* what a get_weather call leaves
Weather(op, args, call) ==
    /\ ret' = Call(op, args, call.result)
    /\ frame' = call.locals
    /\ UNCHANGED <<cls, data, convert_to_utc, ignore_blight, hist>>

WeatherData_get_weather ==
    /\ cls = "WeatherData"
    /\ \E time \in Times, max_hour \in MaxHours, hourly \in BOOLEAN :
        Weather("get_weather", <<time, max_hour, hourly>>,
                get_weather(data, time, max_hour, hourly))

\* get_current_weather: get_weather(datetime.datetime.now(pytz.utc))
WeatherData_get_current_weather ==
    /\ cls = "WeatherData"
    /\ \E now \in Nows :
        Weather("get_current_weather", <<DateTime(now, 0), DefaultMaxHour, FALSE>>,
                get_weather(data, DateTime(now, 0), DefaultMaxHour, FALSE))

WeatherData_get_forecast ==
    /\ cls = "WeatherData"
    /\ \E request \in ForecastRequests :
        ret' = Call("get_forecast", <<request.now, request.hourly>>,
                    get_forecast(data, request.now, request.hourly))
    /\ frame' = EmptyLocals
    /\ UNCHANGED <<cls, data, convert_to_utc, ignore_blight, hist>>

WarningData_fetching_data ==
    /\ cls = "WarningData"
    /\ \E resp \in WarningResponses :
        Fetched(warning_fetching_data(data, resp), resp,
                [count |-> Len(resp.body.parsed), warnings |-> resp.body.parsed])

\* what a get_warnings call leaves
Warnings(r) ==
    /\ data' = r.data
    /\ ret' = Call("get_warnings", <<>>, r.result)
    /\ hist' = IF hist.first = NoCall /\ data # None
               THEN [hist EXCEPT !.first = r.result] ELSE hist
    /\ UNCHANGED <<cls, convert_to_utc, ignore_blight, frame>>

WarningData_get_warnings ==
    /\ cls = "WarningData"
    /\ Warnings(get_warnings(data, convert_to_utc, ignore_blight))

Next ==
    \/ WeatherData_fetching_data
    \/ WeatherData_get_weather
    \/ WeatherData_get_current_weather
    \/ WeatherData_get_forecast
    \/ WarningData_fetching_data
    \/ WarningData_get_warnings

Spec == Init /\ [][Next]_vars

----------------------------------------------------------------------------
(* Properties *)

WeatherCall == ret.op \in {"get_weather", "get_current_weather"}
Returned == ret.result.outcome = "return"
Target == ret.args[1]
MaxHour == ret.args[2]
Hourly == ret.args[3]
DocEntries == IF data = None THEN <<>> ELSE data["product"]["time"]
ValidFrom(e) == parse_datetime(e["@from"])
ValidTo(e) == parse_datetime(e["@to"])

\* |valid_to - t| + |valid_from - t| in seconds
Distance(e, t) ==
    Abs(utc(ValidTo(e)) - utc(t)) + Abs(utc(ValidFrom(e)) - utc(t))

\* the entry has not fully elapsed at t and lies within the window of h hours
Survives(e, t, h) ==
    utc(t) <= utc(ValidTo(e)) /\ Distance(e, t) <= h * SecondsPerHour

Survivors(t, h) == {i \in 1..Len(DocEntries) : Survives(DocEntries[i], t, h)}
Scored(i, t) == <<Distance(DocEntries[i], t), DocEntries[i]>>
Occurrences(seq, x) == Cardinality({k \in 1..Len(seq) : seq[k] = x})

\* valid_from's date or valid_to's date is the calendar day of t
OnDayOf(e, t) == date(ValidFrom(e)) = date(t) \/ date(ValidTo(e)) = date(t)
AllOfDay(t) == {i \in 1..Len(DocEntries) : OnDayOf(DocEntries[i], t)}
UnelapsedOfDay(t) ==
    {i \in AllOfDay(t) : utc(t) <= utc(ValidTo(DocEntries[i]))}

\* the numeric values of param over the entries at the indices in idx
Numbers(idx, param, key) ==
    {<<i, get_value(DocEntries[i]["location"][param], key).v>> :
        i \in {j \in idx : /\ param \in DOMAIN DocEntries[j]["location"]
                           /\ get_value(DocEntries[j]["location"][param], key) # None}}

Greatest(nums) ==
    IF nums = {} THEN None
    ELSE Float((CHOOSE n \in nums : \A m \in nums : m[2] <= n[2])[2])
Least(nums) ==
    IF nums = {} THEN None
    ELSE Float((CHOOSE n \in nums : \A m \in nums : n[2] <= m[2])[2])
RECURSIVE Total(_)
Total(nums) ==
    IF nums = {} THEN 0
    ELSE LET n == CHOOSE m \in nums : TRUE IN n[2] + Total(nums \ {n})
TotalOrNone(nums) == IF nums = {} THEN None ELSE Float(Total(nums))

\* the daily aggregates of a snapshot are those of the entries at idx
AggregatesOver(snap, idx) ==
    /\ snap["temperature"] = Greatest(Numbers(idx, "temperature", "@value"))
    /\ snap["templow"] = Least(Numbers(idx, "temperature", "@value"))
    /\ snap["precipitation"] = TotalOrNone(Numbers(idx, "precipitation", "@value"))
    /\ snap["wind_speed"] = Greatest(Numbers(idx, "windSpeed", "@mps"))
    /\ snap["wind_gust"] = Greatest(Numbers(idx, "windGust", "@mps"))

DailySnapshot ==
    /\ WeatherCall /\ ~Hourly /\ Returned
    /\ ret.result.value # EmptyDict

\* C1: with no fetch in between, every get_warnings call after the first
\* completes and returns what the first call after the fetch returned.
C1_RepeatedCallsAgree ==
    (ret.op = "get_warnings" /\ hist.first # NoCall) => ret.result = hist.first

\* C2: get_weather never raises on missing or malformed per-field data, in
\* hourly and in daily mode alike.
C2_GetWeatherNeverRaises == WeatherCall => Returned

\* C3 (as claimed): a non-empty daily snapshot aggregates over ALL entries
\* whose valid_from date or valid_to date is the calendar day of t.
C3_AggregatesAllEntriesOfDay ==
    DailySnapshot => AggregatesOver(ret.result.value, AllOfDay(Target))

\* C3 (amended): a non-empty daily snapshot aggregates the numeric values of
\* the entries of the calendar day of t that have not elapsed at t
\* (t <= valid_to), whether or not they lie within the H-hour window.
C3_AggregatesUnelapsedEntriesOfDay ==
    DailySnapshot => AggregatesOver(ret.result.value, UnelapsedOfDay(Target))

\* an entry of the day outside the H-hour window sets the daily low
C3_Witness ==
    /\ DailySnapshot
    /\ \E i \in UnelapsedOfDay(Target) \ Survivors(Target, MaxHour) :
          /\ "temperature" \in DOMAIN DocEntries[i]["location"]
          /\ ret.result.value["templow"]
                = get_value(DocEntries[i]["location"]["temperature"], "@value")
    /\ ret.result.value["temperature"] # ret.result.value["templow"]

\* C4: as long as no fetch has succeeded, get_weather and
\* get_current_weather return the empty mapping, get_forecast the empty
\* sequence and get_warnings count 0 with no warnings.
C4_NoDocumentEmptyResults ==
    hist.fetched = None =>
        /\ WeatherCall => ret.result = Return(EmptyDict)
        /\ ret.op = "get_forecast" => ret.result = Return(<<>>)
        /\ ret.op = "get_warnings" =>
              ret.result = Return([count |-> 0, warnings |-> <<>>])

C4_Witness ==
    /\ hist.fetched = None
    /\ ret.op = "get_forecast"
    /\ ret.args[2]
    /\ ret.result = Return(<<>>)

FirstHit(param, ordered) ==
    LET hits == {i \in 1..Len(ordered) : param \in DOMAIN ordered[i][2]["location"]}
    IN  IF hits = {} THEN None
        ELSE new_state(param,
                       ordered[CHOOSE i \in hits : \A j \in hits : i <= j][2]["location"])

\* C5: get_data returns the converted value of the first entry, in selection
\* order, whose location has the parameter (null when that value is
\* malformed, whatever later entries hold), and null when no entry has it.
C5_FirstHitExtraction ==
    WeatherCall =>
        /\ \A p \in KnownParams :
              get_data(p, frame.ordered_entries) = FirstHit(p, frame.ordered_entries)
        /\ (Returned /\ ret.result.value # EmptyDict) =>
              /\ \A i \in 1..Len(CommonFields) :
                    ret.result.value[CommonFields[i]]
                        = FirstHit(CommonParams[i], frame.ordered_entries)
              /\ Hourly => \A i \in 1..Len(HourlyFields) :
                    ret.result.value[HourlyFields[i]]
                        = FirstHit(HourlyParams[i], frame.ordered_entries)

\* the first entry with a temperature holds a malformed one, a later entry a
\* valid one; and an entry lacking the pressure was skipped
C5_Witness ==
    /\ WeatherCall /\ Hourly /\ Returned
    /\ ret.result.value # EmptyDict
    /\ ret.result.value["temperature"] = None
    /\ \E i \in 1..Len(frame.ordered_entries) :
          /\ "temperature" \in DOMAIN frame.ordered_entries[i][2]["location"]
          /\ new_state("temperature", frame.ordered_entries[i][2]["location"]) # None
    /\ "pressure" \notin DOMAIN frame.ordered_entries[1][2]["location"]
    /\ ret.result.value["pressure"] # None

\* every spelling of "blight" in upper and lower case letters
BlightSpellings ==
    {[i \in 1..Len(Blight.v) |->
        IF i \in caps THEN <<"B", "L", "I", "G", "H", "T">>[i] ELSE Blight.v[i]] :
     caps \in SUBSET (1..Len(Blight.v))}
Ids(warnings) == [i \in 1..Len(warnings) |-> warnings[i].id]
NotBlight(entry) == entry.type.v \notin BlightSpellings

\* C6: every result of get_warnings has count = len(warnings); the first
\* call after a fetch returns, and with filtering enabled it returns exactly
\* the fetched entries whose type is not "blight" in any letter case, in
\* their original order.
C6_BlightFilter ==
    /\ (ret.op = "get_warnings" /\ Returned) =>
          ret.result.value.count = Len(ret.result.value.warnings)
    /\ hist.first # NoCall =>
          /\ hist.first.outcome = "return"
          /\ hist.first.value.count = Len(hist.first.value.warnings)
          /\ ignore_blight =>
                Ids(hist.first.value.warnings)
                    = Ids(SelectSeq(hist.fetched.warnings, NotBlight))
          /\ ~ignore_blight =>
                Ids(hist.first.value.warnings) = Ids(hist.fetched.warnings)

\* Wind, Blight, Rain with filtering enabled
C6_Witness ==
    /\ ret.op = "get_warnings" /\ Returned /\ ignore_blight
    /\ hist.fetched # None
    /\ Ids(hist.fetched.warnings) = <<1, 2, 3>>
    /\ ret.result.value.count = 2
    /\ Ids(ret.result.value.warnings) = <<1, 3>>

\* C7: an entry is in the selected list exactly when t <= valid_to and
\* |valid_to - t| + |valid_from - t| <= H * 3600, and it is listed with that
\* distance.
C7_SelectionMembership ==
    WeatherCall =>
        /\ Len(frame.ordered_entries) = Cardinality(Survivors(Target, MaxHour))
        /\ \A i \in Survivors(Target, MaxHour) :
              Occurrences(frame.ordered_entries, Scored(i, Target))
                = Cardinality({j \in Survivors(Target, MaxHour) :
                                  Scored(j, Target) = Scored(i, Target)})

\* one entry has elapsed, the selected one lies exactly H hours away
C7_Witness ==
    /\ WeatherCall /\ data # None
    /\ \E i \in 1..Len(DocEntries) : utc(ValidTo(DocEntries[i])) < utc(Target)
    /\ \E k \in 1..Len(frame.ordered_entries) :
          frame.ordered_entries[k][1] = MaxHour * SecondsPerHour

\* the surviving entries of the document, in document order
SurvivorsInOrder(t, h) ==
    SelectSeq([i \in 1..Len(DocEntries) |-> Scored(i, t)],
              LAMBDA item : Survives(item[2], t, h))
AtDistance(seq, d) == SelectSeq(seq, LAMBDA item : item[1] = d)

\* C8: the selected entries are in non-decreasing distance order, and
\* entries of equal distance keep their document order.
C8_StableDistanceOrder ==
    WeatherCall =>
        /\ \A i, j \in 1..Len(frame.ordered_entries) :
              i < j => frame.ordered_entries[i][1] <= frame.ordered_entries[j][1]
        /\ \A k \in 1..Len(frame.ordered_entries) :
              AtDistance(frame.ordered_entries, frame.ordered_entries[k][1])
                = AtDistance(SurvivorsInOrder(Target, MaxHour),
                             frame.ordered_entries[k][1])

\* two different entries at the same distance
C8_Witness ==
    /\ WeatherCall /\ Len(frame.ordered_entries) = 2
    /\ frame.ordered_entries[1][1] = frame.ordered_entries[2][1]
    /\ frame.ordered_entries[1][2] # frame.ordered_entries[2][2]

FetchFailed ==
    /\ ret.op = "fetching_data"
    /\ (ret.args[1] # "" \/ ret.args[2] >= ErrorStatus)

\* C9: the stored forecast document is the document of the latest
\* successful fetch (absent if none); a fetch that met a timeout, a client
\* error or a status >= 400 returns False.
C9_DocumentIsLatestFetch ==
    cls = "WeatherData" =>
        /\ data = hist.fetched
        /\ FetchFailed => ret.result = Return(Bool(FALSE))

C9_Witness ==
    /\ cls = "WeatherData"
    /\ FetchFailed
    /\ data # None
    /\ Len(DocEntries) = MaxEntries

SnapshotKeys(hourly) ==
    {"datetime", "condition", "pressure", "humidity", "wind_bearing",
     "temperature", "precipitation", "wind_speed", "wind_gust"}
    \cup (IF hourly THEN {"cloudiness"} ELSE {"templow"})

\* C10: a result of get_weather is the empty mapping or a snapshot with
\* datetime = t and every field of its mode; it is empty exactly when the
\* document is absent or no entry survives the selection.
C10_NoPartialSnapshot ==
    WeatherCall =>
        /\ (data = None \/ Survivors(Target, MaxHour) = {}) =>
              ret.result = Return(EmptyDict)
        /\ (data # None /\ Survivors(Target, MaxHour) # {} /\ Returned) =>
              /\ DOMAIN ret.result.value = SnapshotKeys(Hourly)
              /\ ret.result.value["datetime"] = Target

\* daily mode: entries of the target day were collected, none survived
C10_Witness ==
    /\ WeatherCall /\ ~Hourly
    /\ ret.result = Return(EmptyDict)
    /\ frame.daily_temperatures # <<>>

====
